---- MODULE Spec2Model ----
(***************************************************************************)
(* A model of the prompt renderer: the template parser (src/parser.rs),    *)
(* the evaluator and the grouping/squash pass (src/component.rs).          *)
(*                                                                         *)
(* Strings that the parser reads are sequences of one-character strings.   *)
(* An Option<T> is a sequence of length at most one: None is <<>> and      *)
(* Some(x) is <<x>>.                                                       *)
(***************************************************************************)
EXTENDS Naturals, Sequences, FiniteSets, TLC

VARIABLES
    pc,          \* the step the run is at
    components,  \* squash: the optional fragments given to it
    squashed,    \* squash: the fragments it returned
    template,    \* parse: the template string
    parsed,      \* parse: the Result it returned
    source,      \* the token tree template was written out from, if any
    tokens_in,   \* components_from_tokens: the token tree given to it
    context,     \* components_from_tokens: the context, jobs and status of the run
    evaluated,   \* components_from_tokens: the Result it returned
    evaluated_again,  \* the Result of evaluating the same tree in the same context again
    process,     \* main: whether the process ended, its exit code, stdout and stderr
    cwd          \* cwd::short: its three paths and what the call came to

vars ==
    <<pc, components, squashed, template, parsed, source, tokens_in, context, evaluated,
      evaluated_again, process, cwd>>

squashVars == <<components, squashed>>

parseVars == <<template, parsed, source>>

evalVars == <<tokens_in, context, evaluated, evaluated_again>>

runVars == <<process>>

cwdVars == <<cwd>>

None == <<>>

Some(x) == <<x>>

(***************************************************************************)
(* component::Component, the rendered fragment.                            *)
(***************************************************************************)
Static(s) == [kind |-> "Static", s |-> s]

Color(s) == [kind |-> "Color", s |-> s]

ColorReset(s) == [kind |-> "ColorReset", s |-> s]

Computed(s) == [kind |-> "Computed", s |-> s]

IsSomeKind(c, kind) == c # None /\ c[1].kind = kind

(***************************************************************************)
(* into_groups: the Groups helper and the loop over the components.        *)
(***************************************************************************)
Groups_new == [map |-> (0 :> <<>>), current_group_index |-> 0]

current_group_empty(g) ==
    IF g.current_group_index \in DOMAIN g.map
    THEN g.map[g.current_group_index] = <<>>
    ELSE TRUE

add_to_current_group(g, component) ==
    LET i == g.current_group_index
    IN  [g EXCEPT !.map = IF i \in DOMAIN g.map
                          THEN [g.map EXCEPT ![i] = Append(@, component)]
                          ELSE g.map @@ (i :> <<component>>)]

start_new_group(g) == [g EXCEPT !.current_group_index = @ + 1]

RECURSIVE groups_from(_, _)
groups_from(g, i) ==
    IF i > g.current_group_index THEN <<>>
    ELSE (IF i \in DOMAIN g.map THEN <<g.map[i]>> ELSE <<>>) \o groups_from(g, i + 1)

Groups_groups(g) == groups_from(g, 0)

\* The ColorReset arm starting the new group before it adds the reset.
into_groups_arm_reset_opens(g, component) ==
    IF IsSomeKind(component, "Color")
    THEN IF current_group_empty(g)
         THEN add_to_current_group(g, component)
         ELSE add_to_current_group(start_new_group(g), component)
    ELSE IF IsSomeKind(component, "ColorReset")
    THEN add_to_current_group(start_new_group(g), component)
    ELSE add_to_current_group(g, component)

\* The Color arm with the add_to_current_group of its else branch left out.
into_groups_arm_dropping_color(g, component) ==
    IF IsSomeKind(component, "Color")
    THEN IF current_group_empty(g)
         THEN add_to_current_group(g, component)
         ELSE start_new_group(g)
    ELSE IF IsSomeKind(component, "ColorReset")
    THEN start_new_group(add_to_current_group(g, component))
    ELSE add_to_current_group(g, component)

into_groups_arm(g, component) ==
    IF IsSomeKind(component, "Color")
    THEN IF current_group_empty(g)
         THEN add_to_current_group(g, component)
         ELSE add_to_current_group(start_new_group(g), component)
    ELSE IF IsSomeKind(component, "ColorReset")
    THEN start_new_group(add_to_current_group(g, component))
    ELSE add_to_current_group(g, component)

RECURSIVE into_groups_loop(_, _, _)
into_groups_loop(g, cs, i) ==
    IF i > Len(cs) THEN g
    ELSE into_groups_loop(into_groups_arm(g, cs[i]), cs, i + 1)

into_groups(cs) == Groups_groups(into_groups_loop(Groups_new, cs, 1))

(***************************************************************************)
(* should_keep_group and squash.                                           *)
(***************************************************************************)
\* should_keep_group with the absent slots skipped by the first test.
should_keep_group_ignoring_none(group) ==
    LET group_contains_only_static_or_color_or_color_reset ==
            \A i \in 1..Len(group) :
                \/ group[i] = None
                \/ IsSomeKind(group[i], "Color")
                \/ IsSomeKind(group[i], "ColorReset")
                \/ IsSomeKind(group[i], "Static")
        group_contains_a_computed_value ==
            \E i \in 1..Len(group) : IsSomeKind(group[i], "Computed")
    IN  group_contains_only_static_or_color_or_color_reset
            \/ group_contains_a_computed_value

should_keep_group(group) ==
    LET group_contains_only_static_or_color_or_color_reset ==
            \A i \in 1..Len(group) :
                \/ IsSomeKind(group[i], "Color")
                \/ IsSomeKind(group[i], "ColorReset")
                \/ IsSomeKind(group[i], "Static")
        group_contains_a_computed_value ==
            \E i \in 1..Len(group) : IsSomeKind(group[i], "Computed")
    IN  group_contains_only_static_or_color_or_color_reset
            \/ group_contains_a_computed_value

RECURSIVE Flatten(_)
Flatten(ss) == IF ss = <<>> THEN <<>> ELSE Head(ss) \o Flatten(Tail(ss))

squash(cs) == Flatten(Flatten(SelectSeq(into_groups(cs), should_keep_group)))

(***************************************************************************)
(* Strings as sequences of characters.                                     *)
(***************************************************************************)
Lower ==
    { "a", "b", "c", "d", "e", "f", "g", "h", "i", "j", "k", "l", "m",
      "n", "o", "p", "q", "r", "s", "t", "u", "v", "w", "x", "y", "z" }

Upper ==
    { "A", "B", "C", "D", "E", "F", "G", "H", "I", "J", "K", "L", "M",
      "N", "O", "P", "Q", "R", "S", "T", "U", "V", "W", "X", "Y", "Z" }

S_end == <<"e", "n", "d">>

S_else == <<"e", "l", "s", "e">>

S_if == <<"i", "f">>

S_cwd == <<"c", "w", "d">>

S_jobs == <<"j", "o", "b", "s">>

S_user == <<"u", "s", "e", "r">>

S_hostname == <<"h", "o", "s", "t", "n", "a", "m", "e">>

S_git_branch == <<"g", "i", "t", "_", "b", "r", "a", "n", "c", "h">>

S_git_commit == <<"g", "i", "t", "_", "c", "o", "m", "m", "i", "t">>

S_git_stash == <<"g", "i", "t", "_", "s", "t", "a", "s", "h">>

S_git_status == <<"g", "i", "t", "_", "s", "t", "a", "t", "u", "s">>

S_red == <<"r", "e", "d">>

S_reset == <<"r", "e", "s", "e", "t">>

S_last_command_status ==
    <<"l", "a", "s", "t", "_", "c", "o", "m", "m", "a", "n", "d", "_",
      "s", "t", "a", "t", "u", "s">>

(***************************************************************************)
(* token::Token and the names it is parsed from.                           *)
(***************************************************************************)
Token_Static(s) == [type |-> "Static", s |-> s]

Token_Style(st) == [type |-> "Style", st |-> st]

Token_Component(name, options) ==
    [type |-> "Component", name |-> name, options |-> options]

Token_Conditional(condition, left, right) ==
    [type |-> "Conditional", condition |-> condition, left |-> left, right |-> right]

Condition_LastCommandStatus == [cond |-> "LastCommandStatus", var_name |-> <<>>]

Condition_EnvironmentVariable(var_name) ==
    [cond |-> "EnvironmentVariable", var_name |-> var_name]

\* s.parse::<Component>(): None when s is no component name.
Component_from_str(s) ==
    CASE s = S_cwd -> Some("Cwd")
      [] s = S_git_branch -> Some("GitBranch")
      [] s = S_git_commit -> Some("GitCommit")
      [] s = S_git_stash -> Some("GitStash")
      [] s = S_git_status -> Some("GitStatus")
      [] s = S_hostname -> Some("Hostname")
      [] s = S_jobs -> Some("Jobs")
      [] s = S_user -> Some("User")
      [] OTHER -> None

\* s.parse::<StyleToken>(): None when s is no style keyword.
StyleToken_from_str(s) ==
    CASE s = S_red -> Some("Red")
      [] s = S_reset -> Some("Reset")
      [] OTHER -> None

\* s.parse::<Condition>().
Condition_from_str(s) ==
    IF s = S_last_command_status
    THEN Some(Condition_LastCommandStatus)
    ELSE Some(Condition_EnvironmentVariable(s))

(***************************************************************************)
(* The parser combinators.  A parser takes the input and the position it   *)
(* starts at; its result is Ok(pos, val), pos the first position it did    *)
(* not consume, or Err.                                                    *)
(***************************************************************************)
Ok(pos, val) == [ok |-> TRUE, pos |-> pos, val |-> val]

Err == [ok |-> FALSE, pos |-> 0, val |-> <<>>]

tag(t, input, i) ==
    IF i + Len(t) - 1 <= Len(input) /\ SubSeq(input, i, i + Len(t) - 1) = t
    THEN Ok(i + Len(t), t)
    ELSE Err

\* The end of the longest run of characters of cs that starts at i.
RECURSIVE run_of(_, _, _)
run_of(cs, input, i) ==
    IF i <= Len(input) /\ input[i] \in cs THEN run_of(cs, input, i + 1) ELSE i

\* The end of the longest run of characters outside cs that starts at i.
RECURSIVE run_none_of(_, _, _)
run_none_of(cs, input, i) ==
    IF i <= Len(input) /\ input[i] \notin cs THEN run_none_of(cs, input, i + 1) ELSE i

many1_none_of(cs, input, i) ==
    LET upto(j) == IF j > i THEN Ok(j, SubSeq(input, i, j - 1)) ELSE Err
    IN  upto(run_none_of(cs, input, i))

multispace0(input, i) == run_of({" ", "\t", "\r", "\n"}, input, i)

RESERVED_KEYWORDS == { S_end, S_else }

any_char_except_opening_brace(input, i) ==
    LET static(r) == IF r.ok THEN Ok(r.pos, Token_Static(r.val)) ELSE Err
    IN  static(many1_none_of({"{"}, input, i))

\* escaped_opening_brace emitting the one brace the escape stands for.
escaped_opening_brace_unescaped(input, i) ==
    LET static(r) == IF r.ok THEN Ok(r.pos, Token_Static(<<"{">>)) ELSE Err
    IN  static(tag(<<"{", "{">>, input, i))

escaped_opening_brace(input, i) ==
    LET static(r) == IF r.ok THEN Ok(r.pos, Token_Static(r.val)) ELSE Err
    IN  static(tag(<<"{", "{">>, input, i))

\* identifier with the reserved words matched as a prefix of the run.
identifier_rejecting_prefix(input, i) ==
    LET word(j, s) ==
            IF j > i /\ \A k \in RESERVED_KEYWORDS :
                            ~(Len(k) <= Len(s) /\ SubSeq(s, 1, Len(k)) = k)
            THEN Ok(j, s)
            ELSE Err
        upto(j) == word(j, SubSeq(input, i, j - 1))
    IN  upto(run_of(Lower \cup Upper \cup {"_"}, input, i))

identifier(input, i) ==
    LET word(j, s) == IF j > i /\ s \notin RESERVED_KEYWORDS THEN Ok(j, s) ELSE Err
        upto(j) == word(j, SubSeq(input, i, j - 1))
    IN  upto(run_of(Lower \cup Upper \cup {"_"}, input, i))

start_identifier_end(input, i) ==
    LET closed(b, c) == IF c.ok THEN Ok(c.pos, b.val) ELSE Err
        named(b) == IF b.ok THEN closed(b, tag(<<"}">>, input, b.pos)) ELSE Err
        opened(a) == IF a.ok THEN named(identifier(input, a.pos)) ELSE Err
    IN  opened(tag(<<"{">>, input, i))

style_token(input, i) ==
    LET parsed_as(r, st) == IF st # None THEN Ok(r.pos, st[1]) ELSE Err
        named(r) == IF r.ok THEN parsed_as(r, StyleToken_from_str(r.val)) ELSE Err
    IN  named(start_identifier_end(input, i))

style(input, i) ==
    LET styled(r) == IF r.ok THEN Ok(r.pos, Token_Style(r.val)) ELSE Err
    IN  styled(style_token(input, i))

if_start(input, i) ==
    LET keyword(b) == IF b.ok THEN Ok(b.pos, <<>>) ELSE Err
        opened(a) ==
            IF a.ok THEN keyword(tag(S_if, input, multispace0(input, a.pos))) ELSE Err
    IN  opened(tag(<<"{">>, input, i))

if_condition(input, i) ==
    LET closed(c, b) == IF b.ok THEN Ok(b.pos, c[1]) ELSE Err
        parsed_as(a, c) == IF c # None THEN closed(c, tag(<<"}">>, input, a.pos)) ELSE Err
        named(a) == IF a.ok THEN parsed_as(a, Condition_from_str(a.val)) ELSE Err
    IN  named(identifier(input, multispace0(input, i)))

end(input, i) ==
    LET unit(r) == IF r.ok THEN Ok(r.pos, <<>>) ELSE Err
    IN  unit(tag(<<"{">> \o S_end \o <<"}">>, input, i))

if_else_tag(input, i) ==
    LET unit(r) == IF r.ok THEN Ok(r.pos, <<>>) ELSE Err
    IN  unit(tag(<<"{">> \o S_else \o <<"}">>, input, i))

\* key without the multispace0 before it.
key_keeping_whitespace(input, i) == many1_none_of({"="}, input, i)

key(input, i) == many1_none_of({"="}, input, multispace0(input, i))

value(input, i) == many1_none_of({"}", " "}, input, i)

key_value(input, i) ==
    LET paired(k, v) == IF v.ok THEN Ok(v.pos, <<k.val, v.val>>) ELSE Err
        separated(k, e) == IF e.ok THEN paired(k, value(input, e.pos)) ELSE Err
        keyed(k) == IF k.ok THEN separated(k, tag(<<"=">>, input, k.pos)) ELSE Err
    IN  keyed(key(input, i))

\* many0(key_value): the pairs in the order they are read.
RECURSIVE many0_key_value(_, _, _)
many0_key_value(input, i, acc) ==
    LET more(r) ==
            IF r.ok THEN many0_key_value(input, r.pos, Append(acc, r.val)) ELSE Ok(i, acc)
    IN  more(key_value(input, i))

\* options.into_iter().collect(): a later pair replaces an earlier one of its key.
collect_HashMap(pairs) ==
    [k \in { pairs[n][1] : n \in 1..Len(pairs) } |->
        LET last == CHOOSE n \in 1..Len(pairs) :
                        /\ pairs[n][1] = k
                        /\ \A m \in (n + 1)..Len(pairs) : pairs[m][1] # k
        IN  pairs[last][2]]

key_values(input, i) ==
    LET collected(r) == Ok(r.pos, collect_HashMap(r.val))
    IN  collected(many0_key_value(input, i, <<>>))

component(input, i) ==
    LET closed(name, o, c) ==
            IF c.ok THEN Ok(c.pos, Token_Component(name[1], o.val)) ELSE Err
        with_options(name, o) ==
            closed(name, o, tag(<<"}">>, input, multispace0(input, o.pos)))
        parsed_as(n, name) ==
            IF name # None THEN with_options(name, key_values(input, n.pos)) ELSE Err
        named(n) == IF n.ok THEN parsed_as(n, Component_from_str(n.val)) ELSE Err
        opened(a) ==
            IF a.ok THEN named(identifier(input, multispace0(input, a.pos))) ELSE Err
    IN  opened(tag(<<"{">>, input, i))

RECURSIVE tokens(_, _), many0_token(_, _, _), conditional(_, _)

\* The alternatives of tokens, in the order alt tries them.
token_alt(input, i) ==
    LET or_component(d) == IF d.ok THEN d ELSE component(input, i)
        or_conditional(c) == IF c.ok THEN c ELSE or_component(conditional(input, i))
        or_style(b) == IF b.ok THEN b ELSE or_conditional(style(input, i))
        or_escaped(a) == IF a.ok THEN a ELSE or_style(escaped_opening_brace(input, i))
    IN  or_escaped(any_char_except_opening_brace(input, i))

many0_token(input, i, acc) ==
    LET more(r) ==
            IF r.ok THEN many0_token(input, r.pos, Append(acc, r.val)) ELSE Ok(i, acc)
    IN  more(token_alt(input, i))

tokens(input, i) ==
    LET many1(r) == IF r.val # <<>> THEN r ELSE Err
    IN  many1(many0_token(input, i, <<>>))

if_else_branch(input, i) ==
    LET branch(b) == IF b.ok THEN b ELSE Err
        tagged(a) == IF a.ok THEN branch(tokens(input, a.pos)) ELSE Err
    IN  tagged(if_else_tag(input, i))

\* conditional with the closing {end} optional.
conditional_end_optional(input, i) ==
    LET closed(c, l, r, e) ==
            Ok(IF e.ok THEN e.pos ELSE r.pos, Token_Conditional(c.val, l.val, r.val))
        with_right(c, l, r) == closed(c, l, r, end(input, r.pos))
        with_else(c, l, b) ==
            with_right(c, l, IF b.ok THEN Ok(b.pos, Some(b.val)) ELSE Ok(l.pos, None))
        with_left(c, l) == IF l.ok THEN with_else(c, l, if_else_branch(input, l.pos)) ELSE Err
        with_condition(c) == IF c.ok THEN with_left(c, tokens(input, c.pos)) ELSE Err
        started(s) == IF s.ok THEN with_condition(if_condition(input, s.pos)) ELSE Err
    IN  started(if_start(input, i))

conditional(input, i) ==
    LET closed(c, l, r, e) ==
            IF e.ok THEN Ok(e.pos, Token_Conditional(c.val, l.val, r.val)) ELSE Err
        with_right(c, l, r) == closed(c, l, r, end(input, r.pos))
        with_else(c, l, b) ==
            with_right(c, l, IF b.ok THEN Ok(b.pos, Some(b.val)) ELSE Ok(l.pos, None))
        with_left(c, l) == IF l.ok THEN with_else(c, l, if_else_branch(input, l.pos)) ELSE Err
        with_condition(c) == IF c.ok THEN with_left(c, tokens(input, c.pos)) ELSE Err
        started(s) == IF s.ok THEN with_condition(if_condition(input, s.pos)) ELSE Err
    IN  started(if_start(input, i))

S_parse_error == <<"p", "a", "r", "s", "e", " ", "e", "r", "r", "o", "r", ":", " ">>

NoResult == [ok |-> FALSE, toks |-> <<>>, err |-> <<>>]

ParseOk(toks) == [ok |-> TRUE, toks |-> toks, err |-> <<>>]

ParseErr(msg) == [ok |-> FALSE, toks |-> <<>>, err |-> msg]

\* parse without the test that the input was consumed.
parse_prefix(input) ==
    LET result(r) == IF r.ok THEN ParseOk(r.val) ELSE ParseErr(S_parse_error \o input)
    IN  result(tokens(input, 1))

parse(input) ==
    LET result(r) ==
            IF r.ok /\ r.pos > Len(input)
            THEN ParseOk(r.val)
            ELSE ParseErr(S_parse_error \o input)
    IN  result(tokens(input, 1))

(***************************************************************************)
(* The evaluator: the handlers and components_from_tokens.  The context of *)
(* a run is the job count, the last exit status, the repository found (if  *)
(* any) and the environment variables that are set.                        *)
(***************************************************************************)
NoContext == [jobs |-> None, status |-> 0, repository |-> None, env |-> {}]

NoEvaluation == [ok |-> FALSE, cs |-> <<>>, err |-> <<>>]

EvalOk(cs) == [ok |-> TRUE, cs |-> cs, err |-> <<>>]

EvalErr(msg) == [ok |-> FALSE, cs |-> <<>>, err |-> msg]

S_style == <<"s", "t", "y", "l", "e">>

S_default == <<"d", "e", "f", "a", "u", "l", "t">>

S_short == <<"s", "h", "o", "r", "t">>

S_long == <<"l", "o", "n", "g">>

S_error_invalid_options ==
    <<"e", "r", "r", "o", "r", ":", " ", "i", "n", "v", "a", "l", "i", "d", " ",
      "o", "p", "t", "i", "o", "n", "s", ":", " ">>

S_git_status_failed == <<"g", "i", "t", " ", "s", "t", "a", "t", "u", "s">>

S_invalid_style == <<"i", "n", "v", "a", "l", "i", "d", " ", "s", "t", "y", "l", "e">>

Digit == <<"0", "1", "2", "3", "4", "5", "6", "7", "8", "9">>

\* format!("{}", n) of an unsigned number.
RECURSIVE format_number(_)
format_number(n) ==
    IF n < 10 THEN <<Digit[n + 1]>>
    ELSE format_number(n \div 10) \o <<Digit[(n % 10) + 1]>>

color_display(color) == Some(Color(color))

reset_display == Some(ColorReset("Reset"))

git_branch_display(ctx) ==
    IF ctx.repository = None THEN None
    ELSE Some(Computed(ctx.repository[1].branch))

git_commit_display(ctx) ==
    IF ctx.repository = None THEN None
    ELSE Some(Computed(ctx.repository[1].commit))

git_stash_display(ctx) ==
    IF ctx.repository = None THEN None
    ELSE LET r == ctx.repository[1]
         IN  IF r.stash_err \/ r.stash_count = 0 THEN None
             ELSE Some(Computed(format_number(r.stash_count) \o <<"+">>))

\* A Result: [ok, val] with val the Option<Component>, or [ok, err].
git_status_display(ctx) ==
    IF ctx.repository = None THEN [ok |-> TRUE, val |-> None, err |-> <<>>]
    ELSE IF ctx.repository[1].status_err
    THEN [ok |-> FALSE, val |-> None, err |-> S_git_status_failed]
    ELSE [ok |-> TRUE, val |-> Some(Computed(ctx.repository[1].status)), err |-> <<>>]

hostname_display == Some(Computed(<<"h">>))

user_display == Some(Computed(<<"u">>))

jobs_display(jobs) == IF jobs # None THEN Some(Computed(jobs[1])) ELSE None

\* The map without key k (HashMap::remove).
Remove(options, k) == [x \in DOMAIN options \ {k} |-> options[x]]

\* cwd::display takes the style option out of the options and fails on a style
\* it does not know; options is what it leaves.
cwd_display(ctx, options) ==
    IF S_style \in DOMAIN options /\ options[S_style] \notin { S_default, S_short, S_long }
    THEN [ok |-> FALSE, val |-> None, err |-> S_invalid_style, options |-> options]
    ELSE [ok |-> TRUE, val |-> Some(Computed(<<"~">>)), err |-> <<>>,
          options |-> Remove(options, S_style)]

\* display with every handler taking all the options it is given.
display_consuming_all_options(name, ctx, options) ==
    CASE name = "GitBranch" ->
            [ok |-> TRUE, val |-> git_branch_display(ctx), err |-> <<>>, options |-> <<>>]
      [] name = "GitCommit" ->
            [ok |-> TRUE, val |-> git_commit_display(ctx), err |-> <<>>, options |-> <<>>]
      [] name = "GitStash" ->
            [ok |-> TRUE, val |-> git_stash_display(ctx), err |-> <<>>, options |-> <<>>]
      [] name = "GitStatus" ->
            LET r == git_status_display(ctx)
            IN  [ok |-> r.ok, val |-> r.val, err |-> r.err, options |-> <<>>]
      [] name = "Hostname" ->
            [ok |-> TRUE, val |-> hostname_display, err |-> <<>>, options |-> <<>>]
      [] name = "Jobs" ->
            [ok |-> TRUE, val |-> jobs_display(ctx.jobs), err |-> <<>>, options |-> <<>>]
      [] name = "Cwd" -> [cwd_display(ctx, options) EXCEPT !.options = <<>>]
      [] name = "User" ->
            [ok |-> TRUE, val |-> user_display, err |-> <<>>, options |-> <<>>]

\* The handler of a component: its Result and the options it leaves.
display(name, ctx, options) ==
    CASE name = "GitBranch" ->
            [ok |-> TRUE, val |-> git_branch_display(ctx), err |-> <<>>, options |-> options]
      [] name = "GitCommit" ->
            [ok |-> TRUE, val |-> git_commit_display(ctx), err |-> <<>>, options |-> options]
      [] name = "GitStash" ->
            [ok |-> TRUE, val |-> git_stash_display(ctx), err |-> <<>>, options |-> options]
      [] name = "GitStatus" ->
            LET r == git_status_display(ctx)
            IN  [ok |-> r.ok, val |-> r.val, err |-> r.err, options |-> options]
      [] name = "Hostname" ->
            [ok |-> TRUE, val |-> hostname_display, err |-> <<>>, options |-> options]
      [] name = "Jobs" ->
            [ok |-> TRUE, val |-> jobs_display(ctx.jobs), err |-> <<>>, options |-> options]
      [] name = "Cwd" -> cwd_display(ctx, options)
      [] name = "User" ->
            [ok |-> TRUE, val |-> user_display, err |-> <<>>, options |-> options]

\* The pairs of options as k=v, joined with ", " in the order the map is
\* iterated in.
RECURSIVE JoinOptions(_, _)
JoinOptions(options, order) ==
    IF order = <<>> THEN <<>>
    ELSE Head(order) \o <<"=">> \o options[Head(order)]
            \o (IF Tail(order) = <<>> THEN <<>> ELSE <<",", " ">>)
            \o JoinOptions(options, Tail(order))

\* The keys of options in the order of rank, the map's iteration order.
IterationOrder(options, rank) ==
    SelectSeq(rank, LAMBDA k : k \in DOMAIN options)

\* The message naming only the first pair the iteration yields.
invalid_options_first_only(options, rank) ==
    S_error_invalid_options
        \o JoinOptions(options, SubSeq(IterationOrder(options, rank), 1, 1))

invalid_options(options, rank) ==
    S_error_invalid_options \o JoinOptions(options, IterationOrder(options, rank))

\* condition_holds with the test of the status turned round.
condition_holds_on_failure(condition, ctx) ==
    IF condition.cond = "LastCommandStatus"
    THEN ctx.status # 0
    ELSE condition.var_name \in ctx.env

condition_holds(condition, ctx) ==
    IF condition.cond = "LastCommandStatus"
    THEN ctx.status = 0
    ELSE condition.var_name \in ctx.env

\* components_from_tokens from token i on, cs the components pushed so far.
RECURSIVE components_from(_, _, _, _, _)
components_from(toks, i, cs, ctx, rank) ==
    IF i > Len(toks) THEN EvalOk(cs)
    ELSE LET token == toks[i]
         IN  CASE token.type = "Static" ->
                    components_from(toks, i + 1, Append(cs, Some(Static(token.s))), ctx, rank)
               [] token.type = "Style" ->
                    components_from(toks, i + 1,
                        Append(cs, IF token.st = "Reset" THEN reset_display
                                   ELSE color_display(token.st)),
                        ctx, rank)
               [] token.type = "Component" ->
                    LET c == display(token.name, ctx, token.options)
                    IN  IF ~c.ok THEN EvalErr(c.err)
                        ELSE IF c.options # <<>>
                        THEN EvalErr(invalid_options(c.options, rank))
                        ELSE components_from(toks, i + 1, Append(cs, c.val), ctx, rank)
               [] token.type = "Conditional" ->
                    LET result == condition_holds(token.condition, ctx)
                        branch == IF result THEN token.left
                                  ELSE IF token.right # None THEN token.right[1]
                                  ELSE <<>>
                        inner == components_from(branch, 1, <<>>, ctx, rank)
                    IN  IF ~inner.ok THEN inner
                        ELSE components_from(toks, i + 1, cs \o inner.cs, ctx, rank)

components_from_tokens(toks, ctx, rank) == components_from(toks, 1, <<>>, ctx, rank)

(***************************************************************************)
(* main and run: the process has a stdout, a stderr and, once it ended, an  *)
(* exit code.  A panic aborts the process: the panic message goes to        *)
(* stderr and the exit code is 101.                                         *)
(***************************************************************************)
S_error == <<"e", "r", "r", "o", "r", ":", " ">>

S_PWD == <<"P", "W", "D">>

S_unable_to_get_current_dir ==
    <<"u", "n", "a", "b", "l", "e", " ", "t", "o", " ", "g", "e", "t", " ", "c", "u", "r", "r", "e", "n", "t", " ", "d", "i", "r">>

S_panicked ==
    <<"t", "h", "r", "e", "a", "d", " ", "m", "a", "i", "n", " ", "p", "a", "n", "i", "c", "k", "e", "d", " ", "a", "t", " ", "c", "a", "l", "l", "e", "d", " ", "R", "e", "s", "u", "l", "t", ":", ":", "u", "n", "w", "r", "a", "p", "(", ")", " ", "o", "n", " ", "a", "n", " ", "E", "r", "r", " ", "v", "a", "l", "u", "e", ":", " ">>

Running == [status |-> "running", code |-> 0, stdout |-> <<>>, stderr |-> <<>>]

\* Result::unwrap on an Err: the thread panics and the process aborts.
unwrap_panic(p, err) ==
    [p EXCEPT !.status = "aborted", !.code = 101,
              !.stderr = Append(@, S_panicked \o err)]

\* unwrap_or_else in main: the error is printed to stderr after error: and
\* the process exits with 1.
main_unwrap_or_else(p, err) ==
    [p EXCEPT !.status = "exited", !.code = 1, !.stderr = Append(@, S_error \o err)]

\* main after run returned Ok(()).
main_returns(p) == [p EXCEPT !.status = "exited", !.code = 0]

\* The print loop over the components.
print_components(p, cs) == [p EXCEPT !.stdout = @ \o cs]

(***************************************************************************)
(* component/cwd.rs.  A path is absolute or relative and has a sequence of *)
(* segments; a segment is a string.  A call returns its String or panics.  *)
(***************************************************************************)
Path(abs, segs) == [abs |-> abs, segs |-> segs]

PathBuf_new == Path(FALSE, <<>>)

\* Path::parent: the path without its last segment, None when it has none.
parent(path) ==
    IF path.segs = <<>> THEN None
    ELSE Some(Path(path.abs, SubSeq(path.segs, 1, Len(path.segs) - 1)))

\* Path::strip_prefix: the path relative to base, an error when base is not a
\* prefix of it.
strip_prefix(path, base) ==
    IF /\ path.abs = base.abs
       /\ Len(base.segs) <= Len(path.segs)
       /\ SubSeq(path.segs, 1, Len(base.segs)) = base.segs
    THEN [ok |-> TRUE,
          path |-> Path(FALSE, SubSeq(path.segs, Len(base.segs) + 1, Len(path.segs)))]
    ELSE [ok |-> FALSE, path |-> PathBuf_new]

\* PathBuf::push: an absolute path replaces, a relative one is appended.
push(path, other) ==
    IF other.abs THEN other ELSE Path(path.abs, path.segs \o other.segs)

\* Path::display: the segments joined by /, after a / when absolute.
RECURSIVE join_segments(_)
join_segments(segs) ==
    IF segs = <<>> THEN <<>>
    ELSE IF Len(segs) = 1 THEN segs[1]
    ELSE segs[1] \o <<"/">> \o join_segments(Tail(segs))

path_display(path) == (IF path.abs THEN <<"/">> ELSE <<>>) \o join_segments(path.segs)

NoCwd == [current_dir |-> PathBuf_new, home_dir |-> PathBuf_new,
          git_root |-> PathBuf_new, called |-> FALSE, panicked |-> FALSE, s |-> <<>>]

Returned(s) == [panicked |-> FALSE, s |-> s]

Panicked == [panicked |-> TRUE, s |-> <<>>]

replace_home_dir(current_dir, home_dir) ==
    IF current_dir = home_dir THEN <<"~">>
    ELSE IF strip_prefix(current_dir, home_dir).ok
    THEN <<"~", "/">> \o path_display(strip_prefix(current_dir, home_dir).path)
    ELSE path_display(current_dir)

\* The fold of short: the first character of every segment.
short_repo(git_root) == Path(FALSE, [n \in 1..Len(git_root.segs) |-> <<git_root.segs[n][1]>>])

\* short once the home directory is stripped from current_dir and repo/.git
\* is removed from git_root.
short_in_home(current_dir, home_dir, git_root) ==
    IF ~strip_prefix(git_root, home_dir).ok
    THEN Panicked
    ELSE IF ~strip_prefix(current_dir, strip_prefix(git_root, home_dir).path).ok
    THEN Panicked
    ELSE Returned(replace_home_dir(
            push(push(push(PathBuf_new, home_dir),
                      short_repo(strip_prefix(git_root, home_dir).path)),
                 strip_prefix(current_dir, strip_prefix(git_root, home_dir).path).path),
            home_dir))

short(current_dir, home_dir, git_root) ==
    IF ~strip_prefix(current_dir, home_dir).ok
    THEN Returned(path_display(current_dir))
    ELSE IF parent(git_root) = None
    THEN Panicked
    ELSE IF parent(parent(git_root)[1]) = None
    THEN Panicked
    ELSE short_in_home(strip_prefix(current_dir, home_dir).path, home_dir,
                       parent(parent(git_root)[1])[1])

(***************************************************************************)
(* The squash pass on its own: every sequence of optional fragments of a   *)
(* bounded length is an input.                                             *)
(***************************************************************************)
MaxFragments == 5

Fragments ==
    { None, Some(Static("a")), Some(Color("red")), Some(ColorReset("reset")),
      Some(Computed("b")) }

FragmentSeqs == UNION { [1..n -> Fragments] : n \in 0..MaxFragments }

InitSquash ==
    /\ pc = "components"
    /\ components \in FragmentSeqs
    /\ squashed = <<>>
    /\ template = <<>>
    /\ parsed = NoResult
    /\ source = None
    /\ tokens_in = <<>>
    /\ context = NoContext
    /\ evaluated = NoEvaluation
    /\ evaluated_again = NoEvaluation
    /\ process = Running
    /\ cwd = NoCwd

Squash ==
    /\ pc = "components"
    /\ squashed' = squash(components)
    /\ pc' = "squashed"
    /\ UNCHANGED <<components, parseVars, evalVars, runVars, cwdVars>>

NextSquash == Squash

SpecSquash == InitSquash /\ [][NextSquash]_vars

(***************************************************************************)
(* The parser on its own: a template is any concatenation of at most       *)
(* MaxPieces pieces.                                                       *)
(***************************************************************************)
MaxPieces == 4

S_a_b == <<" ", "a", "=", "b">>

Pieces ==
    { <<"{">>, <<"}">>, <<" ">>, S_end, S_a_b,
      <<"{">> \o S_cwd,
      <<"{">> \o S_red \o <<"}">>,
      <<"{">> \o S_if \o <<" ">>,
      <<"{">> \o S_if \o <<" ">> \o S_last_command_status \o <<"}">>,
      <<"{">> \o S_else \o <<"}", "x">>,
      <<"{">> \o S_end \o <<"}">> }

RECURSIVE Concats(_)
Concats(n) ==
    IF n = 0 THEN { <<>> }
    ELSE LET shorter == Concats(n - 1)
         IN  shorter \cup { t \o p : t \in shorter, p \in Pieces }

Templates == Concats(MaxPieces)

(***************************************************************************)
(* Writing a token tree back out as a template: Static text verbatim,      *)
(* {name k=v ...} for a component (its options in any order, the map has   *)
(* none), {if c}...{else}...{end} for a conditional, {style} for a style   *)
(* marker.  The result is the set of the templates it can be written as.   *)
(***************************************************************************)
ComponentNames ==
    { S_cwd, S_git_branch, S_git_commit, S_git_stash, S_git_status,
      S_hostname, S_jobs, S_user }

StyleKeywords == { S_red, S_reset }

ComponentText(name) == CHOOSE s \in ComponentNames : Component_from_str(s) = Some(name)

StyleText(st) == CHOOSE s \in StyleKeywords : StyleToken_from_str(s) = Some(st)

ConditionText(condition) ==
    IF condition = Condition_LastCommandStatus
    THEN S_last_command_status
    ELSE condition.var_name

Orders(S) == { o \in [1..Cardinality(S) -> S] : \A k \in S : \E n \in DOMAIN o : o[n] = k }

RECURSIVE OptionsText(_, _)
OptionsText(options, order) ==
    IF order = <<>> THEN <<>>
    ELSE <<" ">> \o Head(order) \o <<"=">> \o options[Head(order)]
            \o OptionsText(options, Tail(order))

RECURSIVE SerializeTokens(_)
SerializeToken(t) ==
    CASE t.type = "Static" -> { t.s }
      [] t.type = "Style" -> { <<"{">> \o StyleText(t.st) \o <<"}">> }
      [] t.type = "Component" ->
            { <<"{">> \o ComponentText(t.name) \o OptionsText(t.options, o) \o <<"}">> :
                o \in Orders(DOMAIN t.options) }
      [] t.type = "Conditional" ->
            { <<"{">> \o S_if \o <<" ">> \o ConditionText(t.condition) \o <<"}">>
                \o l \o r \o <<"{">> \o S_end \o <<"}">> :
                l \in SerializeTokens(t.left),
                r \in IF t.right = None THEN { <<>> }
                      ELSE { <<"{">> \o S_else \o <<"}">> \o e :
                                e \in SerializeTokens(t.right[1]) } }

SerializeTokens(ts) ==
    IF ts = <<>> THEN { <<>> }
    ELSE { a \o b : a \in SerializeToken(Head(ts)), b \in SerializeTokens(Tail(ts)) }

InitParse ==
    /\ pc = "template"
    /\ template \in Templates
    /\ parsed = NoResult
    /\ source = None
    /\ components = <<>>
    /\ squashed = <<>>
    /\ tokens_in = <<>>
    /\ context = NoContext
    /\ evaluated = NoEvaluation
    /\ evaluated_again = NoEvaluation
    /\ process = Running
    /\ cwd = NoCwd

Parse ==
    /\ pc = "template"
    /\ parsed' = parse(template)
    /\ pc' = "parsed"
    /\ UNCHANGED <<template, source, squashVars, evalVars, runVars, cwdVars>>

\* The parsed tree written back out and given to parse again.
Reserialize ==
    /\ pc = "parsed"
    /\ parsed.ok
    /\ source = None
    /\ template' \in SerializeTokens(parsed.toks)
    /\ source' = Some(parsed.toks)
    /\ parsed' = NoResult
    /\ pc' = "template"
    /\ UNCHANGED <<squashVars, evalVars, runVars, cwdVars>>

NextParse == Parse \/ Reserialize

SpecParse == InitParse /\ [][NextParse]_vars

(***************************************************************************)
(* Properties of squash.                                                   *)
(***************************************************************************)
\* Position i opens a segment of the partition.
SegmentStart(cs, i) ==
    \/ i = 1
    \/ IsSomeKind(cs[i - 1], "ColorReset")
    \/ IsSomeKind(cs[i], "Color")

SegmentFirst(cs, i) ==
    CHOOSE a \in 1..i : SegmentStart(cs, a) /\ \A k \in (a + 1)..i : ~SegmentStart(cs, k)

SegmentLast(cs, i) ==
    CHOOSE b \in i..Len(cs) :
        /\ b = Len(cs) \/ SegmentStart(cs, b + 1)
        /\ \A k \in (i + 1)..b : ~SegmentStart(cs, k)

\* The segment position i lies in is kept: (a) all of it is present colour
\* or text, or (b) it holds a present Value.
SegmentKept(cs, i) ==
    LET slots == SegmentFirst(cs, i)..SegmentLast(cs, i)
    IN  \/ \A k \in slots :
                cs[k] # None /\ cs[k][1].kind \in { "Color", "ColorReset", "Static" }
        \/ \E k \in slots : cs[k] # None /\ cs[k][1].kind = "Computed"

RECURSIVE PresentOfKeptFrom(_, _)
PresentOfKeptFrom(cs, i) ==
    IF i > Len(cs) THEN <<>>
    ELSE (IF cs[i] # None /\ SegmentKept(cs, i) THEN <<cs[i][1]>> ELSE <<>>)
            \o PresentOfKeptFrom(cs, i + 1)

\* C1: squash returns exactly the present fragments of the kept segments, in
\* their original order; a segment is kept iff all its slots are present
\* ColorStart/ColorReset/Text or it holds a present Value; a segment that is
\* not kept contributes nothing, and a kept one loses only its absent slots.
C1_SquashKeepsKeptSegments ==
    pc = "squashed" => squashed = PresentOfKeptFrom(components, 1)

\* A run in which one segment was dropped whole, decoration included, and a
\* kept segment lost an absent slot.
C1_Witness ==
    /\ pc = "squashed"
    /\ \E i \in 1..Len(components) : components[i] = None /\ SegmentKept(components, i)
    /\ \E j \in 1..Len(components) : components[j] # None /\ ~SegmentKept(components, j)

AllPresent(cs) == [i \in 1..Len(cs) |-> Some(cs[i])]

\* C2: squash is idempotent: squash applied to its own output, each fragment
\* wrapped as present, returns that output unchanged.
C2_SquashIdempotent ==
    pc = "squashed" => squash(AllPresent(squashed)) = squashed

\* A first pass that dropped something and kept a colour marker.
C2_Witness ==
    /\ pc = "squashed"
    /\ Len(squashed) < Len(components)
    /\ \E i \in 1..Len(squashed) : squashed[i].kind = "Color"
    /\ \E i \in 2..Len(squashed) : squashed[i].kind = "Color"

(***************************************************************************)
(* Properties of parse.                                                    *)
(***************************************************************************)
\* The grammar stops before the end of the template, or matches nothing.
GrammarStopsShort(input) ==
    LET r == tokens(input, 1) IN ~r.ok \/ r.pos <= Len(input)

\* C3: parse succeeds only when the token grammar consumes the whole
\* template; when a remainder is left, or nothing matches at position 0, it
\* returns an error and no token list.
C3_NoPartialResult ==
    (pc = "parsed" /\ GrammarStopsShort(template)) => (~parsed.ok /\ parsed.toks = <<>>)

\* A template of which a proper prefix parses, and parse has failed.
C3_Witness ==
    /\ pc = "parsed"
    /\ tokens(template, 1).ok
    /\ tokens(template, 1).pos <= Len(template)
    /\ ~parsed.ok

\* C4: when a prefix of the template parsed and a remainder did not, the
\* ParseError carries the unconsumed suffix of the template, not the text
\* already consumed.
C4_ErrorCarriesSuffix ==
    (pc = "parsed" /\ tokens(template, 1).ok /\ tokens(template, 1).pos <= Len(template))
        => parsed.err = S_parse_error
                \o SubSeq(template, tokens(template, 1).pos, Len(template))

\* The text {if <condition>} stands at position i.
OpenerAt(input, i) ==
    if_start(input, i).ok /\ if_condition(input, if_start(input, i).pos).ok

OpenerEnd(input, i) == if_condition(input, if_start(input, i).pos).pos

\* The text {end} stands somewhere at or after position i.
EndFollows(input, i) == \E j \in i..Len(input) : end(input, j).ok

UnmatchedOpenerAt(input, i) ==
    OpenerAt(input, i) /\ ~EndFollows(input, OpenerEnd(input, i))

\* The positions at which the grammar starts a token when it reads the input
\* from position i on: i itself, the position after each token read, and the
\* start of each branch of a conditional tried there.
RECURSIVE TokenPositions(_, _)
TokenPositions(input, i) ==
    LET r == token_alt(input, i)
        c == if_condition(input, if_start(input, i).pos)
        l == tokens(input, c.pos)
        e == if_else_tag(input, l.pos)
    IN  {i}
        \cup (IF r.ok THEN TokenPositions(input, r.pos) ELSE {})
        \cup (IF OpenerAt(input, i)
              THEN TokenPositions(input, c.pos)
                    \cup (IF l.ok /\ e.ok THEN TokenPositions(input, e.pos) ELSE {})
              ELSE {})

\* C5 as stated: parse fails on every template that contains an {if <condition>}
\* opener not followed by a matching {end}, wherever the opener text occurs.
C5_UnmatchedIfFailsAnywhere ==
    (pc = "parsed" /\ \E i \in 1..Len(template) : UnmatchedOpenerAt(template, i))
        => ~parsed.ok

\* C5 as amended: parse fails on every template in which an {if <condition>}
\* opener stands where the grammar starts a token and is not followed by {end}.
C5_UnmatchedIfFailsAtTokenPosition ==
    (pc = "parsed" /\ \E i \in TokenPositions(template, 1) : UnmatchedOpenerAt(template, i))
        => ~parsed.ok

\* An unmatched opener that is reached after other tokens were read.
C5_Witness ==
    /\ pc = "parsed"
    /\ \E i \in TokenPositions(template, 1) : i > 1 /\ UnmatchedOpenerAt(template, i)
    /\ ~parsed.ok

IdentifierChars == Lower \cup Upper \cup {"_"}

\* The full identifier token at position i: the longest run of letters and
\* underscores that starts there.
IdentifierToken(input, i) == SubSeq(input, i, run_of(IdentifierChars, input, i) - 1)

StartsWithReserved(s) ==
    \E k \in RESERVED_KEYWORDS : Len(k) < Len(s) /\ SubSeq(s, 1, Len(k)) = k

RECURSIVE NoReservedName(_)
NoReservedName(ts) ==
    \A n \in 1..Len(ts) :
        CASE ts[n].type = "Component" -> ComponentText(ts[n].name) \notin RESERVED_KEYWORDS
          [] ts[n].type = "Conditional" ->
                /\ ConditionText(ts[n].condition) \notin RESERVED_KEYWORDS
                /\ NoReservedName(ts[n].left)
                /\ ts[n].right # None => NoReservedName(ts[n].right[1])
          [] OTHER -> TRUE

\* C6: identifier fails whenever the full identifier token is end or else, so
\* no parsed token tree holds a component or condition name that is end or
\* else; an identifier that only starts with a reserved word is accepted.
C6_ReservedIdentifiers ==
    pc = "parsed" =>
        /\ \A i \in 1..Len(template) :
            LET s == IdentifierToken(template, i)
            IN  /\ s \in { S_end, S_else } => ~identifier(template, i).ok
                /\ StartsWithReserved(s) => identifier(template, i) = Ok(i + Len(s), s)
        /\ parsed.ok => NoReservedName(parsed.toks)

\* A template holding a full identifier token end, which identifier rejects,
\* and a longer token that starts with end, which it accepts.
C6_Witness ==
    /\ pc = "parsed"
    /\ \E i \in 1..Len(template) :
        IdentifierToken(template, i) = S_end /\ ~identifier(template, i).ok
    /\ \E i \in 1..Len(template) :
        StartsWithReserved(IdentifierToken(template, i)) /\ identifier(template, i).ok

\* C7: for every component name N and every non-empty literal run S without
\* an opening brace, parse("{N}" + S) is exactly the component N without options
\* followed by Static(S), whatever else S holds.
C7_StaticAfterComponent ==
    pc = "parsed" =>
        \A n \in ComponentNames :
            LET head == <<"{">> \o n \o <<"}">>
                S == SubSeq(template, Len(head) + 1, Len(template))
            IN  ( /\ Len(template) > Len(head)
                  /\ SubSeq(template, 1, Len(head)) = head
                  /\ \A k \in 1..Len(S) : S[k] # "{" )
                => parsed = ParseOk(<<Token_Component(Component_from_str(n)[1], <<>>),
                                      Token_Static(S)>>)

EscapedBrace == Token_Static(<<"{", "{">>)

\* C8: wherever {{ begins a token position the grammar emits Static("{{") and
\* goes on after both braces; the second brace never opens a directive.
C8_EscapedBrace ==
    pc = "parsed" =>
        /\ \A i \in 1..(Len(template) - 1) :
            (template[i] = "{" /\ template[i + 1] = "{")
                => token_alt(template, i) = Ok(i + 2, EscapedBrace)
        /\ (Len(template) >= 2 /\ template[1] = "{" /\ template[2] = "{") =>
            LET rest == SubSeq(template, 3, Len(template))
            IN  IF rest = <<>> THEN parsed = ParseOk(<<EscapedBrace>>)
                ELSE IF parse(rest).ok
                     THEN parsed = ParseOk(<<EscapedBrace>> \o parse(rest).toks)
                     ELSE ~parsed.ok

\* An escaped brace directly followed by a component, as in {{{cwd}.
C8_Witness ==
    /\ pc = "parsed"
    /\ parsed.ok
    /\ Len(parsed.toks) = 2
    /\ parsed.toks[1] = EscapedBrace
    /\ parsed.toks[2].type = "Component"

\* C9: a token tree written back out as a template parses again, to a token
\* tree equal to the first.
C9_RoundTrip ==
    (pc = "parsed" /\ source # None) => parsed = ParseOk(source[1])

\* A round trip of a conditional with an else branch, and one of a component
\* with an option.
C9_Witness ==
    /\ pc = "parsed"
    /\ source # None
    /\ \E n \in 1..Len(source[1]) :
        \/ source[1][n].type = "Conditional" /\ source[1][n].right # None
        \/ source[1][n].type = "Component" /\ source[1][n].options # <<>>

(***************************************************************************)
(* The evaluator on its own: every token tree of at most MaxTokens tokens, *)
(* counted at every depth, in every context.  The order a HashMap is       *)
(* iterated in is not defined: each evaluation picks one.                  *)
(***************************************************************************)
MaxTokens == 3

S_foo == <<"f", "o", "o">>

S_bar == <<"b", "a", "r">>

S_VAR == <<"V", "A", "R">>

OptionKeys == { S_foo, <<"a">>, S_style }

Atoms ==
    { Token_Static(<<"x">>),
      Token_Style("Red"),
      Token_Component("Jobs", <<>>),
      Token_Component("Jobs", S_foo :> S_bar),
      Token_Component("Jobs", (S_foo :> S_bar) @@ (<<"a">> :> <<"b">>)),
      Token_Component("Cwd", (S_style :> S_short) @@ (S_foo :> S_bar)),
      Token_Component("GitStatus", S_foo :> S_bar) }

Conditions == { Condition_LastCommandStatus, Condition_EnvironmentVariable(S_VAR) }

RECURSIVE TokensOfSize(_), ListsOfSize(_)
\* The single tokens that hold n tokens in all.
TokensOfSize(n) ==
    IF n = 1 THEN Atoms
    ELSE { Token_Conditional(c, l, None) : c \in Conditions, l \in ListsOfSize(n - 1) }
         \cup UNION { { Token_Conditional(c, l, Some(r)) :
                            c \in Conditions,
                            l \in ListsOfSize(a),
                            r \in ListsOfSize(n - 1 - a) } : a \in 1..(n - 2) }

\* The non-empty token lists that hold n tokens in all.
ListsOfSize(n) ==
    UNION { { <<t>> \o l : t \in TokensOfSize(a),
                           l \in IF a = n THEN { <<>> } ELSE ListsOfSize(n - a) } :
            a \in 1..n }

TokenTrees == UNION { ListsOfSize(n) : n \in 1..MaxTokens }

\* A repository with three stash entries whose status cannot be computed.
Repositories ==
    { [branch |-> <<"m">>, commit |-> <<"c">>, stash_err |-> FALSE, stash_count |-> 3,
       status_err |-> TRUE, status |-> <<>>] }

Contexts ==
    [ jobs : { None, Some(<<"2">>) },
      status : { 0, 1 },
      repository : { None } \cup { Some(r) : r \in Repositories },
      env : { {}, { S_VAR } } ]

InitEval ==
    /\ pc = "tokens"
    /\ tokens_in \in TokenTrees
    /\ context \in Contexts
    /\ evaluated = NoEvaluation
    /\ evaluated_again = NoEvaluation
    /\ process = Running
    /\ cwd = NoCwd
    /\ template = <<>>
    /\ parsed = NoResult
    /\ source = None
    /\ components = <<>>
    /\ squashed = <<>>

Evaluate ==
    /\ pc = "tokens"
    /\ \E rank \in Orders(OptionKeys) :
        evaluated' = components_from_tokens(tokens_in, context, rank)
    /\ pc' = "evaluated"
    /\ UNCHANGED <<tokens_in, context, evaluated_again, parseVars, squashVars, runVars, cwdVars>>

\* A second run over the same template in the same context: the option maps are
\* built anew, and iterated in an order of their own.
EvaluateAgain ==
    /\ pc = "evaluated"
    /\ \E rank \in Orders(OptionKeys) :
        evaluated_again' = components_from_tokens(tokens_in, context, rank)
    /\ pc' = "evaluated_twice"
    /\ UNCHANGED <<tokens_in, context, evaluated, parseVars, squashVars, runVars, cwdVars>>

NextEval == Evaluate \/ EvaluateAgain

SpecEval == InitEval /\ [][NextEval]_vars

(***************************************************************************)
(* Properties of components_from_tokens.                                   *)
(***************************************************************************)
NoLeftover == [found |-> FALSE, stopped |-> FALSE, options |-> <<>>]

\* The options left by the first component that evaluation reaches and whose
\* handler returns with options left over; stopped when evaluation ends on a
\* handler failure before that.
RECURSIVE FirstLeftover(_, _, _)
FirstLeftover(toks, i, ctx) ==
    IF i > Len(toks) THEN NoLeftover
    ELSE LET token == toks[i]
         IN  CASE token.type = "Component" ->
                    LET c == display(token.name, ctx, token.options)
                    IN  IF ~c.ok THEN [NoLeftover EXCEPT !.stopped = TRUE]
                        ELSE IF c.options # <<>>
                        THEN [found |-> TRUE, stopped |-> TRUE, options |-> c.options]
                        ELSE FirstLeftover(toks, i + 1, ctx)
               [] token.type = "Conditional" ->
                    LET inner ==
                            IF condition_holds(token.condition, ctx)
                            THEN FirstLeftover(token.left, 1, ctx)
                            ELSE IF token.right # None
                            THEN FirstLeftover(token.right[1], 1, ctx)
                            ELSE NoLeftover
                    IN  IF inner.stopped THEN inner ELSE FirstLeftover(toks, i + 1, ctx)
               [] OTHER -> FirstLeftover(toks, i + 1, ctx)

\* msg is "error: invalid options: " and the pairs of options, all of them and
\* no others, in some order.
NamesExactly(msg, options) ==
    \E order \in Orders(DOMAIN options) :
        msg = S_error_invalid_options \o JoinOptions(options, order)

\* C10: when a component is evaluated and its handler leaves options
\* unconsumed, components_from_tokens returns an error and no fragments, and
\* the message is "error: invalid options: " followed by exactly the remaining
\* key=value pairs; for the single leftover foo=bar it names exactly foo=bar.
C10_InvalidOptionsError ==
    LET left == FirstLeftover(tokens_in, 1, context)
    IN  (pc = "evaluated" /\ left.found) =>
            /\ ~evaluated.ok
            /\ evaluated.cs = <<>>
            /\ NamesExactly(evaluated.err, left.options)
            /\ left.options = (S_foo :> S_bar) =>
                evaluated.err = S_error_invalid_options \o S_foo \o <<"=">> \o S_bar

\* cwd took its style option and left foo=bar, inside a branch that was taken.
C10_Witness ==
    /\ pc = "evaluated"
    /\ \E n \in 1..Len(tokens_in) :
        /\ tokens_in[n].type = "Conditional"
        /\ FirstLeftover(<<tokens_in[n]>>, 1, context).found
    /\ FirstLeftover(tokens_in, 1, context).options = (S_foo :> S_bar)
    /\ ~evaluated.ok

\* The component tokens of a token list, at every depth and in either branch.
RECURSIVE AllComponents(_)
AllComponents(toks) ==
    UNION { IF toks[n].type = "Component" THEN { toks[n] }
            ELSE IF toks[n].type = "Conditional"
            THEN AllComponents(toks[n].left)
                    \cup (IF toks[n].right = None THEN {}
                          ELSE AllComponents(toks[n].right[1]))
            ELSE {} : n \in 1..Len(toks) }

\* The condition of a conditional holds: the last status is 0, or the named
\* environment variable is set.
Holds(condition, ctx) ==
    \/ condition = Condition_LastCommandStatus /\ ctx.status = 0
    \/ condition # Condition_LastCommandStatus /\ condition.var_name \in ctx.env

\* The branch of a conditional that the context selects, empty when none is.
TakenBranch(token, ctx) ==
    IF Holds(token.condition, ctx) THEN token.left
    ELSE IF token.right # None THEN token.right[1]
    ELSE <<>>

\* The component tokens at the top level and in the branches the context
\* selects, at every depth.
RECURSIVE TakenComponents(_, _)
TakenComponents(toks, ctx) ==
    UNION { IF toks[n].type = "Component" THEN { toks[n] }
            ELSE IF toks[n].type = "Conditional"
            THEN TakenComponents(TakenBranch(toks[n], ctx), ctx)
            ELSE {} : n \in 1..Len(toks) }

\* The option keys of a component token that its handler does not know: cwd
\* knows style, the other handlers know none.
Unrecognized(token) ==
    DOMAIN token.options \ (IF token.name = "Cwd" THEN { S_style } ELSE {})

IsInvalidOptionsError(msg) ==
    /\ Len(msg) > Len(S_error_invalid_options)
    /\ SubSeq(msg, 1, Len(S_error_invalid_options)) = S_error_invalid_options

\* C11 as stated: a token tree that holds, at any depth and in either branch
\* of a conditional, a component with an option key its handler does not know
\* fails to evaluate with an invalid-options error in every context.
C11_LeftoverFailsAtAnyDepth ==
    (pc = "evaluated" /\ \E t \in AllComponents(tokens_in) : Unrecognized(t) # {}) =>
        ~evaluated.ok /\ IsInvalidOptionsError(evaluated.err)

\* C11: when a component with an option key its handler does not know stands
\* at the top level or in a branch the context selects, at any depth,
\* evaluation fails and returns no fragments; the error is the
\* invalid-options error unless the handler of a component in a selected
\* branch fails with its own error.  A component in a branch that is not
\* selected is not evaluated.
C11_LeftoverFailsWhereEvaluated ==
    (pc = "evaluated"
        /\ \E t \in TakenComponents(tokens_in, context) : Unrecognized(t) # {}) =>
        /\ ~evaluated.ok
        /\ evaluated.cs = <<>>
        /\ \/ IsInvalidOptionsError(evaluated.err)
           \/ \E t \in TakenComponents(tokens_in, context) :
                ~display(t.name, context, t.options).ok

\* The unknown key sits two conditionals deep, the outer one taken by its else
\* branch or the inner one by its condition, and evaluation failed on it.
C11_Witness ==
    /\ pc = "evaluated"
    /\ Len(tokens_in) = 1
    /\ tokens_in[1].type = "Conditional"
    /\ \E n \in 1..Len(TakenBranch(tokens_in[1], context)) :
        LET inner == TakenBranch(tokens_in[1], context)[n]
        IN  /\ inner.type = "Conditional"
            /\ \E t \in TakenComponents(<<inner>>, context) : Unrecognized(t) # {}
    /\ IsInvalidOptionsError(evaluated.err)

\* C12: evaluating the same component with the same two or more unknown
\* options in the same context twice gives the same invalid-options message,
\* the key=value pairs joined in the same order both times.
C12_SameMessageTwice ==
    (pc = "evaluated_twice" /\ IsInvalidOptionsError(evaluated.err)) =>
        evaluated_again.err = evaluated.err

\* The fragments a token list stands for, token by token from the left: one
\* fragment for a Static, a style marker or a component, and for a conditional
\* the fragments of the branch the context selects.
RECURSIVE Expected(_, _)
Expected(toks, ctx) ==
    IF toks = <<>> THEN <<>>
    ELSE LET token == Head(toks)
         IN  (CASE token.type = "Static" -> << Some(Static(token.s)) >>
                [] token.type = "Style" ->
                    << IF token.st = "Reset" THEN reset_display
                       ELSE color_display(token.st) >>
                [] token.type = "Component" ->
                    << display(token.name, ctx, token.options).val >>
                [] token.type = "Conditional" ->
                    Expected(TakenBranch(token, ctx), ctx))
             \o Expected(Tail(toks), ctx)

AnyOrder == CHOOSE rank \in Orders(OptionKeys) : TRUE

\* C13: a conditional contributes the fragments of left when its condition
\* holds, of right when it does not and right is present, and none otherwise,
\* at its own position: the result is in the order of the template at every
\* depth, and is the fragments of the siblings before the conditional, those
\* of the selected branch, and those of the siblings after it.
C13_ConditionalSplice ==
    (pc = "evaluated" /\ evaluated.ok) =>
        /\ evaluated.cs = Expected(tokens_in, context)
        /\ \A n \in 1..Len(tokens_in) :
            tokens_in[n].type = "Conditional" =>
                evaluated.cs =
                    components_from_tokens(SubSeq(tokens_in, 1, n - 1), context, AnyOrder).cs
                    \o Expected(TakenBranch(tokens_in[n], context), context)
                    \o components_from_tokens(
                            SubSeq(tokens_in, n + 1, Len(tokens_in)), context, AnyOrder).cs

\* A conditional that follows a Static sibling contributed the fragment of a
\* component, spliced in after the sibling's.
C13_Witness ==
    /\ pc = "evaluated"
    /\ evaluated.ok
    /\ Len(tokens_in) = 2
    /\ tokens_in[1].type = "Static"
    /\ tokens_in[2].type = "Conditional"
    /\ Len(evaluated.cs) = 2
    /\ IsSomeKind(evaluated.cs[1], "Static")
    /\ IsSomeKind(evaluated.cs[2], "Computed")

(***************************************************************************)
(* A run of the program: main calls run with a config, run parses it,      *)
(* reads the current directory, evaluates the tokens, squashes and prints. *)
(***************************************************************************)
MaxConfigPieces == 3

Configs == Concats(MaxConfigPieces)

RunContexts ==
    [ jobs : { None, Some(<<"2">>) },
      status : { 0, 1 },
      repository : { None } \cup { Some(r) : r \in Repositories },
      env : { {}, { S_PWD } } ]

InitRun ==
    /\ pc = "run"
    /\ template \in Configs
    /\ context \in RunContexts
    /\ process = Running
    /\ cwd = NoCwd
    /\ parsed = NoResult
    /\ source = None
    /\ tokens_in = <<>>
    /\ evaluated = NoEvaluation
    /\ evaluated_again = NoEvaluation
    /\ components = <<>>
    /\ squashed = <<>>

\* The config is parsed and the Result unwrapped.
RunParse ==
    /\ pc = "run"
    /\ parsed' = parse(template)
    /\ IF parsed'.ok
       THEN pc' = "current_dir" /\ UNCHANGED process
       ELSE pc' = "done" /\ process' = unwrap_panic(process, parsed'.err)
    /\ UNCHANGED <<template, source, squashVars, evalVars, cwdVars>>

\* The current directory is read from PWD; without it run returns an error.
RunCurrentDir ==
    /\ pc = "current_dir"
    /\ IF S_PWD \in context.env
       THEN pc' = "evaluate" /\ UNCHANGED process
       ELSE /\ pc' = "done"
            /\ process' = main_unwrap_or_else(process, S_unable_to_get_current_dir)
    /\ UNCHANGED <<parseVars, squashVars, evalVars, cwdVars>>

\* The components of the tokens; an error of the evaluation is returned to main.
RunEvaluate ==
    /\ pc = "evaluate"
    /\ tokens_in' = parsed.toks
    /\ \E rank \in Orders(OptionKeys) :
        evaluated' = components_from_tokens(parsed.toks, context, rank)
    /\ IF evaluated'.ok
       THEN pc' = "squash" /\ UNCHANGED process
       ELSE pc' = "done" /\ process' = main_unwrap_or_else(process, evaluated'.err)
    /\ UNCHANGED <<context, evaluated_again, parseVars, squashVars, cwdVars>>

\* component::squash(components), the print loop, Ok(()).
RunPrint ==
    /\ pc = "squash"
    /\ components' = evaluated.cs
    /\ squashed' = squash(evaluated.cs)
    /\ process' = main_returns(print_components(process, squash(evaluated.cs)))
    /\ pc' = "done"
    /\ UNCHANGED <<parseVars, evalVars, cwdVars>>

NextRun == RunParse \/ RunCurrentDir \/ RunEvaluate \/ RunPrint

SpecRun == InitRun /\ [][NextRun]_vars

(***************************************************************************)
(* Properties of a run.                                                    *)
(***************************************************************************)
\* C14: every parse error and every evaluation error ends the process in the
\* error exit, a single line "error: <message>" on stderr and a non-zero exit
\* code, reached through main's error handling and not through an abort, with
\* nothing printed to stdout; the exit code is zero only when the prompt was
\* rendered.
C14_ErrorsEndInErrorExit ==
    pc = "done" =>
        /\ (parsed # NoResult /\ ~parsed.ok) =>
                /\ process.status = "exited"
                /\ process.code # 0
                /\ process.stderr = << S_error \o parsed.err >>
                /\ process.stdout = <<>>
        /\ (evaluated # NoEvaluation /\ ~evaluated.ok) =>
                /\ process.status = "exited"
                /\ process.code # 0
                /\ process.stderr = << S_error \o evaluated.err >>
                /\ process.stdout = <<>>
        /\ process.code = 0 =>
                /\ parsed.ok
                /\ evaluated.ok
                /\ process.stdout = squash(evaluated.cs)

(***************************************************************************)
(* cwd::short on its own: a home directory, a current directory and the    *)
(* .git directory of a repository that the current directory is in.        *)
(***************************************************************************)
MaxPathDepth == 4

Segments == { <<"a", "x", "x">>, <<"b", "x", "x">>, <<"r", "e", "p", "o">> }

S_dot_git == <<".", "g", "i", "t">>

Directories == UNION { [1..n -> Segments] : n \in 0..MaxPathDepth }

InitCwd ==
    /\ pc = "cwd"
    /\ \E home \in Directories, dir \in Directories, depth \in 0..MaxPathDepth :
        /\ depth <= Len(dir)
        /\ cwd = [NoCwd EXCEPT
                    !.current_dir = Path(TRUE, dir),
                    !.home_dir = Path(TRUE, home),
                    !.git_root = Path(TRUE, Append(SubSeq(dir, 1, depth), S_dot_git))]
    /\ process = Running
    /\ template = <<>>
    /\ parsed = NoResult
    /\ source = None
    /\ tokens_in = <<>>
    /\ context = NoContext
    /\ evaluated = NoEvaluation
    /\ evaluated_again = NoEvaluation
    /\ components = <<>>
    /\ squashed = <<>>

Short ==
    /\ pc = "cwd"
    /\ cwd' = [cwd EXCEPT
                !.called = TRUE,
                !.panicked = short(cwd.current_dir, cwd.home_dir, cwd.git_root).panicked,
                !.s = short(cwd.current_dir, cwd.home_dir, cwd.git_root).s]
    /\ pc' = "shortened"
    /\ UNCHANGED <<squashVars, parseVars, evalVars, runVars>>

NextCwd == Short

SpecCwd == InitCwd /\ [][NextCwd]_vars

(***************************************************************************)
(* Properties of cwd::short.                                               *)
(***************************************************************************)
IsPrefix(a, b) == Len(a) <= Len(b) /\ SubSeq(b, 1, Len(a)) = a

\* The repository root: the directory that holds .git.
RepositoryRoot == SubSeq(cwd.git_root.segs, 1, Len(cwd.git_root.segs) - 1)

\* The segments from position a to position b of segs, each after a /, the
\* first character only when shortened.
RECURSIVE Rendered(_, _, _, _)
Rendered(segs, a, b, shortened) ==
    IF a > b THEN <<>>
    ELSE <<"/">> \o (IF shortened THEN <<segs[a][1]>> ELSE segs[a])
            \o Rendered(segs, a + 1, b, shortened)

\* C15: when the home directory is the repository root or above it, and the
\* current directory is in the repository, short returns, never aborting: ~,
\* the segments between the home directory and the repository directory as
\* their first characters, and the repository directory and the segments below
\* it in full.
C15_ShortRendering ==
    (pc = "shortened" /\ IsPrefix(cwd.home_dir.segs, RepositoryRoot)) =>
        /\ ~cwd.panicked
        /\ cwd.s = <<"~">>
            \o Rendered(cwd.current_dir.segs, Len(cwd.home_dir.segs) + 1,
                        Len(RepositoryRoot) - 1, TRUE)
            \o Rendered(cwd.current_dir.segs,
                        IF Len(RepositoryRoot) > Len(cwd.home_dir.segs)
                        THEN Len(RepositoryRoot) ELSE Len(RepositoryRoot) + 1,
                        Len(cwd.current_dir.segs), FALSE)

(***************************************************************************)
(* Properties of into_groups.                                              *)
(***************************************************************************)
\* C16: the partition loses and reorders nothing: the segments concatenated
\* in order are the input, absent slots included; a present Color is the
\* first slot of its segment and a present ColorReset the last; a sequence
\* without color markers is a single segment.
C16_PartitionKeepsEverything ==
    pc = "squashed" =>
        /\ Flatten(into_groups(components)) = components
        /\ \A n \in 1..Len(into_groups(components)) :
            \A k \in 1..Len(into_groups(components)[n]) :
                /\ IsSomeKind(into_groups(components)[n][k], "Color") => k = 1
                /\ IsSomeKind(into_groups(components)[n][k], "ColorReset") =>
                        k = Len(into_groups(components)[n])
        /\ (\A k \in 1..Len(components) :
                /\ ~IsSomeKind(components[k], "Color")
                /\ ~IsSomeKind(components[k], "ColorReset")) =>
                    Len(into_groups(components)) = 1

\* Three segments or more, one with an absent slot, one closed by a reset and
\* one opened by a color.
C16_Witness ==
    /\ pc = "squashed"
    /\ Len(into_groups(components)) >= 3
    /\ \E k \in 1..Len(components) : components[k] = None
    /\ \E k \in 2..Len(components) :
        /\ IsSomeKind(components[k], "Color")
        /\ ~IsSomeKind(components[k - 1], "ColorReset")
    /\ \E k \in 1..(Len(components) - 1) :
        /\ IsSomeKind(components[k], "ColorReset")
        /\ ~IsSomeKind(components[k + 1], "Color")

\* C17: the partition never returns an empty segment, for the empty sequence
\* and for a sequence that ends in a ColorReset too: every segment holds at
\* least one slot.
C17_NoEmptySegment ==
    \A n \in 1..Len(into_groups(components)) : into_groups(components)[n] # <<>>

====
